---------------------------- MODULE Spec2Model ----------------------------
(***************************************************************************)
(* A model of OpenMapping2JSON: the mapping-specification compiler of      *)
(* src/main.py and src/com/openmapping.                                    *)
(*                                                                         *)
(* Strings are sequences of atoms.  An atom is a blank " ", one of the     *)
(* four characters cleanse_column_list removes ("U+00A0", "U+200B",        *)
(* "U+2000", "U+180E"), or a word: a maximal run of other characters       *)
(* ("OrderId").  A spreadsheet cell is a record [k, v]: k = "str" with the *)
(* string v, k = "nan" for the float NaN pandas gives an empty cell,       *)
(* k = "none" for Python's None, k = "num" for a number n.                 *)
(***************************************************************************)
EXTENDS Integers, Sequences, FiniteSets, TLC

VARIABLES
    pc,                        \* position of the caller
    column_list,               \* argument of cleanse_column_list
    cleansed_column_list,      \* its return value
    target_data_area,          \* the --target argument
    mapping_file,              \* the input file: [columns, rows]
    mapping_file_df,           \* the frame validate_mapping_file returned
    mint_data_areas,           \* config/mint/mint_data_areas.json
    source_tables_schema_dict, \* source table -> resolved schema
    original_source_tables_schema_dict, \* process_mapping_file's deep copy
    files,                     \* the output folder: file name -> content
    output_config_files,       \* process_mapping_file's list of written names
    error,                     \* the exception that ended the call, NoError if none
    target_tables_dict,        \* generate_target_table_config's outcome
    target_schema_config_dict, \* generate_target_schema_config's outcome
    pipeline_config_dict,      \* generate_pipeline_config's outcome
    mapping_config_dict,       \* generate_mapping_config's outcome
    resolver_table_name,       \* source_table_name of generate_source_schema_config
    environment,               \* what the key vault and the database do to it
    resolver_outcome,          \* generate_source_schema_config's outcome
    collaborator_calls,        \* the collaborators it called, in order
    previous_run               \* how the run before this one ended, its files

\* The arguments of a run, the sanitizer's own call, the generators' outcomes.
inputs == <<target_data_area, mapping_file, mint_data_areas>>
cleansing == <<column_list, cleansed_column_list>>
generated == <<target_tables_dict, target_schema_config_dict,
               pipeline_config_dict, mapping_config_dict>>

resolving == <<resolver_table_name, environment, resolver_outcome,
               collaborator_calls>>

vars == <<pc, cleansing, inputs, mapping_file_df, source_tables_schema_dict,
          original_source_tables_schema_dict, files, output_config_files, error,
          generated, resolving, previous_run>>

-----------------------------------------------------------------------------
(* Bounds of the model.                                                    *)

\* Longest string, in atoms, of the cleansing inputs.
MaxStrLen == 2
\* Longest list handed to cleanse_column_list on its own.
MaxLen == 2
\* Most rows of a mapping file.
MaxRows == 2

-----------------------------------------------------------------------------
(* Cells and strings.                                                      *)

Str(s) == [k |-> "str", v |-> s]
NaN == [k |-> "nan", v |-> <<>>]
None == [k |-> "none", v |-> <<>>]
Num(n) == [k |-> "num", v |-> <<>>, n |-> n]

Word(w) == Str(<<w>>)

\* The characters line 23 replaces by ''.
InvisibleChars == {"U+00A0", "U+200B", "U+2000", "U+180E"}

\* What str.strip() takes for whitespace, among the atoms of the model:
\* U+200B and U+180E are not whitespace to Python 3.
WhitespaceChars == {" ", "U+00A0", "U+2000"}

RECURSIVE LStrip(_)
LStrip(s) ==
    IF s # <<>> /\ Head(s) \in WhitespaceChars THEN LStrip(Tail(s)) ELSE s

RECURSIVE RStrip(_)
RStrip(s) ==
    IF s # <<>> /\ s[Len(s)] \in WhitespaceChars
    THEN RStrip(SubSeq(s, 1, Len(s) - 1))
    ELSE s

\* str.strip()
strip(s) == RStrip(LStrip(s))

\* col.replace(c, '') for the four characters of line 23
replace_invisible(s) == SelectSeq(s, LAMBDA a : a \notin InvisibleChars)

IsStr(c) == c.k = "str"
IsFloat(c) == c.k = "nan"
\* pd.isna / notnull
IsNa(c) == c.k \in {"nan", "none"}

\* All sequences over S of length at most n.
SeqsUpTo(S, n) == UNION {[1..m -> S] : m \in 0..n}

-----------------------------------------------------------------------------
(* utils/functions.py: cleanse_column_list.                                *)

\* line 17: [col for col in column_list if col != '']
DropEmptyStrings(l) == SelectSeq(l, LAMBDA c : c # Str(<<>>))

\* line 20: isinstance(col, float) and math.isnan(col).  The module imports
\* logging alone (line 1), so evaluating math.isnan raises NameError; `and`
\* evaluates it exactly when col is a float.
NanFilterRaises(l) == \E i \in DOMAIN l : IsFloat(l[i])

DropNan(l) == SelectSeq(l, LAMBDA c : ~IsFloat(c))

\* line 23: col.replace(...) raises AttributeError on an entry that is no str.
ReplaceRaises(l) == \E i \in DOMAIN l : ~IsStr(l[i])

ReplaceInvisible(l) == [i \in DOMAIN l |-> Str(replace_invisible(l[i].v))]

\* line 26: [col for col in ... if col is not None]
DropNone(l) == SelectSeq(l, LAMBDA c : c.k # "none")

\* line 29: [col.strip() for col in ...]
StripAll(l) == [i \in DOMAIN l |-> Str(strip(l[i].v))]

\* lines 32-33: the seen-set deduplication
RECURSIVE DedupSeen(_, _)
DedupSeen(l, seen) ==
    IF l = <<>> THEN <<>>
    ELSE IF Head(l) \in seen THEN DedupSeen(Tail(l), seen)
    ELSE <<Head(l)>> \o DedupSeen(Tail(l), seen \cup {Head(l)})

Deduplicate(l) == DedupSeen(l, {})

\* lines 13-39: any exception of the try block gives the empty list.
cleanse_column_list(l) ==
    LET s1 == DropEmptyStrings(l)
    IN  IF NanFilterRaises(s1) THEN <<>>
        ELSE LET s2 == DropNan(s1)
             IN  IF ReplaceRaises(s2) THEN <<>>
                 ELSE Deduplicate(StripAll(DropNone(ReplaceInvisible(s2))))

-----------------------------------------------------------------------------
(* Python dicts, in insertion order: sequences of <<key, value>> pairs.    *)

DictKeys(d) == [i \in DOMAIN d |-> d[i][1]]
DictHas(d, key) == \E i \in DOMAIN d : d[i][1] = key
DictGet(d, key) == d[CHOOSE i \in DOMAIN d : d[i][1] = key][2]
\* d[key] = val: a new key goes last, an old one keeps its place.
DictPut(d, key, val) ==
    IF DictHas(d, key)
    THEN [i \in DOMAIN d |-> IF d[i][1] = key THEN <<key, val>> ELSE d[i]]
    ELSE Append(d, <<key, val>>)

\* Exceptions: what was raised, and what the message reports.
NoError == [kind |-> "none"]
Raised(kind, detail) == [kind |-> kind, detail |-> detail]

-----------------------------------------------------------------------------
(* core/maps.py                                                            *)

PANDAS_DATATYPE_MAP ==
    [t \in {"smallint", "decimal", "varchar", "datetime", "int", "integer",
            "bigint", "uniqueidentifier", "date", "long", "double", "timestamp"} |->
        CASE t \in {"smallint", "int", "integer"} -> "integer"
          [] t \in {"decimal", "double"} -> "double"
          [] t \in {"varchar", "uniqueidentifier"} -> "string"
          [] t \in {"datetime", "date", "timestamp"} -> "timestamp"
          [] t \in {"bigint", "long"} -> "long"]

\* The same lookup with the type itself as the default.
MapType_unmapped_kept(t) ==
    IF t \in DOMAIN PANDAS_DATATYPE_MAP THEN PANDAS_DATATYPE_MAP[t] ELSE t

\* PANDAS_DATATYPE_MAP.get(t, 'string') for a str t of the source schema
MapType(t) ==
    IF t \in DOMAIN PANDAS_DATATYPE_MAP THEN PANDAS_DATATYPE_MAP[t] ELSE "string"

\* PANDAS_DATATYPE_MAP.get(cell, 'string') for a spreadsheet cell: the keys
\* are single words, so a NaN or a padded name finds nothing.
MapCellType(c) ==
    IF IsStr(c) /\ Len(c.v) = 1 THEN MapType(c.v[1]) ELSE "string"

\* The same dictionary with landing-zone as its own upstream.
TARGET_SOURCE_AREA_MAP_with_landing_zone ==
    [t \in {"landing-zone", "bronze", "silver", "gold"} |->
        CASE t \in {"landing-zone", "bronze"} -> "landing-zone"
          [] t = "silver" -> "bronze"
          [] t = "gold" -> "silver"]

TARGET_SOURCE_AREA_MAP ==
    [t \in {"bronze", "silver", "gold"} |->
        CASE t = "bronze" -> "landing-zone"
          [] t = "silver" -> "bronze"
          [] t = "gold" -> "silver"]

BasicColumns ==
    {"Source Table Name", "Source Column Name", "Target Table Name",
     "Target Column Name"}

AllColumns ==
    BasicColumns \cup {"Order By", "Partition By", "Is Business Key", "Data Type",
                       "Default Value", "Transformation Function"}

\* The dict literal of lines 22-26 names the key 'bronze' twice: the second
\* value replaces the first, and 'silver' and 'gold' are no keys.
MAP_FILE_REQUIRED_COLUMNS_MAP ==
    [t \in {"landing-zone", "bronze"} |->
        IF t = "landing-zone" THEN BasicColumns ELSE AllColumns]

-----------------------------------------------------------------------------
(* pandas frames: [columns: the header, rows: a sequence of functions from *)
(* the header to cells].                                                    *)

\* df[c].tolist()
Col(df, c) == [i \in DOMAIN df.rows |-> df.rows[i][c]]

\* df[df[c] == s] for a str s: NaN equals nothing.
FilterEq(df, c, s) ==
    [columns |-> df.columns,
     rows |-> SelectSeq(df.rows, LAMBDA r : r[c] = Str(s))]

\* Series.unique().tolist(): first occurrences, NaN once.
Unique(l) == Deduplicate(l)

\* Whether df[c] has object dtype, so that df[c].str is allowed: a column
\* read with no string in it is float64, and .str raises AttributeError.
HasStrAccessor(df, c) == \E i \in DOMAIN df.rows : IsStr(df.rows[i][c])

\* The strings of a list of str cells.
Values(l) == [i \in DOMAIN l |-> l[i].v]

\* Whether the element e is in the sequence l.
InSeq(e, l) == \E i \in DOMAIN l : l[i] = e

\* The concatenation of a sequence of sequences.
RECURSIVE Flatten(_)
Flatten(ll) == IF ll = <<>> THEN <<>> ELSE Head(ll) \o Flatten(Tail(ll))

-----------------------------------------------------------------------------
(* The collaborators: the key vault, the SQL catalog, the output folder.   *)

\* The -d argument.
Domain == <<"sales">>

\* INFORMATION_SCHEMA.COLUMNS of the source database.
SqlCatalog ==
    (<<"ORDERS">> :> <<[name |-> <<"id">>, type |-> "int"],
                       [name |-> <<"name">>, type |-> "varchar"]>>)
    @@ (<<"CUSTOMERS">> :> <<[name |-> <<"id">>, type |-> "bigint"]>>)

\* utils/database_utils.py: the rows of the catalog for the table, none for
\* a table the database does not have.
get_sql_table_schema(table_name) ==
    IF table_name \in DOMAIN SqlCatalog THEN SqlCatalog[table_name] ELSE <<>>

\* What the key vault and the database do to one call.
Envs ==
    {[vault_ok |-> TRUE, db_ok |-> TRUE],
     [vault_ok |-> FALSE, db_ok |-> TRUE],
     [vault_ok |-> TRUE, db_ok |-> FALSE]}

\* os.path.join(OUTPUT_FOLDER, 'domains', domain, area, file_name); a file
\* name f"{prefix}_{kind}_{name}.json" is kept as its three parts.
FileName(prefix, kind, name) == <<prefix, kind, name>>
FilePath(area, file_name) == <<area, file_name>>

\* The same write with open(file_path, 'a'): the content is added to what
\* the file holds.
write_config_file_append(fs, area, file_name, config_json) ==
    IF FilePath(area, file_name) \in DOMAIN fs
    THEN (FilePath(area, file_name) :>
             <<fs[FilePath(area, file_name)], config_json>>) @@ fs
    ELSE (FilePath(area, file_name) :> config_json) @@ fs

\* lines 77-105: open(file_path, 'w') and json.dump: the file's content is
\* replaced.
write_config_file(fs, area, file_name, config_json) ==
    (FilePath(area, file_name) :> config_json) @@ fs

\* lines 107-144
generate_source_schema_config(fs, target, source_table_name, env) ==
    LET source_data_area ==
            IF target \in DOMAIN TARGET_SOURCE_AREA_MAP
            THEN TARGET_SOURCE_AREA_MAP[target] ELSE "None"
        path == FilePath(source_data_area,
                         FileName(source_data_area, "schema", source_table_name))
    IN  CASE source_data_area = "landing-zone" ->
               IF ~env.vault_ok
               THEN [err |-> Raised("key_vault", source_table_name), val |-> <<>>]
               ELSE IF ~env.db_ok
               THEN [err |-> Raised("database", source_table_name), val |-> <<>>]
               ELSE [err |-> NoError,
                     val |-> [domain |-> Domain,
                              table_name |-> source_table_name,
                              columns |-> get_sql_table_schema(source_table_name)]]
          [] source_data_area \in {"bronze", "silver"} ->
               IF path \in DOMAIN fs
               THEN [err |-> NoError, val |-> fs[path]]
               ELSE [err |-> Raised("file_not_found", path), val |-> <<>>]
          [] OTHER ->
               [err |-> Raised("unresolved_schema", target), val |-> <<>>]

\* lines 126-142: the collaborators generate_source_schema_config calls, in
\* order: the key vault and then the database, the artifact store, or none.
ResolverCalls(target, env) ==
    LET source_data_area ==
            IF target \in DOMAIN TARGET_SOURCE_AREA_MAP
            THEN TARGET_SOURCE_AREA_MAP[target] ELSE "None"
    IN  CASE source_data_area = "landing-zone" ->
               IF env.vault_ok THEN <<"key_vault", "database">> ELSE <<"key_vault">>
          [] source_data_area \in {"bronze", "silver"} -> <<"artifact_store">>
          [] OTHER -> <<>>

-----------------------------------------------------------------------------
(* core/functions.py: validate_mapping_file.                               *)

\* lines 14-22
RequiredColumnsKnown(target) == target \in DOMAIN MAP_FILE_REQUIRED_COLUMNS_MAP
get_required_columns_list(target) == MAP_FILE_REQUIRED_COLUMNS_MAP[target]

\* lines 184-185
SourceTablesList(df) ==
    Values(cleanse_column_list(Unique(Col(df, "Source Table Name"))))

\* lines 198-199: the rows are picked by the cleansed table name.
SourceColumnsList(df, source_table) ==
    Values(cleanse_column_list(
        Unique(Col(FilterEq(df, "Source Table Name", source_table),
                   "Source Column Name"))))

\* line 202
SchemaColumnNames(schema) == [i \in DOMAIN schema.columns |-> schema.columns[i].name]

\* lines 197-205
InvalidSourceColumns(df, tables, dict) ==
    Flatten([i \in DOMAIN tables |->
        SelectSeq(SourceColumnsList(df, tables[i]),
                  LAMBDA c : ~InSeq(c, SchemaColumnNames(DictGet(dict, tables[i]))))])

\* lines 146-214; utils/file_utils.py lines 38-40 for the empty file.
validate_mapping_file(mf, target, fs, env) ==
    LET missing == get_required_columns_list(target) \ mf.columns
        tables == SourceTablesList(mf)
        resolved == [i \in DOMAIN tables |->
                        generate_source_schema_config(fs, target, tables[i], env)]
        failed == {i \in DOMAIN tables : resolved[i].err # NoError}
        dict == [i \in DOMAIN tables |-> <<tables[i], resolved[i].val>>]
        invalid == InvalidSourceColumns(mf, tables, dict)
        Fail(e) == [err |-> e, df |-> mf, dict |-> <<>>]
    IN  IF mf.rows = <<>> THEN Fail(Raised("input_file_empty", <<>>))
        ELSE IF ~RequiredColumnsKnown(target)
        THEN Fail(Raised("no_required_columns", target))
        ELSE IF missing # {} THEN Fail(Raised("missing_required_columns", missing))
        ELSE IF failed # {}
        THEN Fail(resolved[CHOOSE i \in failed : \A j \in failed : i <= j].err)
        ELSE IF invalid # <<>> THEN Fail(Raised("invalid_source_columns", invalid))
        ELSE [err |-> NoError, df |-> mf, dict |-> dict]

-----------------------------------------------------------------------------
(* core/functions.py: the target table list and the target schema.        *)

Ok(val) == [err |-> NoError, val |-> val]
Fails(kind, detail) == [err |-> Raised(kind, detail), val |-> <<>>]

\* The first element of l that raised, NoError if none did.
FirstError(l) ==
    LET bad == {i \in DOMAIN l : l[i].err # NoError}
    IN  IF bad = {} THEN NoError
        ELSE l[CHOOSE i \in bad : \A j \in bad : i <= j].err

\* mint_data_areas.json as the module reads it: the audit columns of each
\* data area.
AuditColumns(area) ==
    <<[name |-> <<area, "LoadTimestamp">>, type |-> "timestamp"],
      [name |-> <<"SourceFile">>, type |-> "string"]>>

\* The states of config/mint/mint_data_areas.json: there with every data
\* area, or not there.
MintConfigs ==
    {[present |-> TRUE, areas |-> {"landing-zone", "bronze", "silver", "gold"}],
     [present |-> FALSE, areas |-> {}]}

\* lines 24-59
get_data_area_audit_columns(mint, target) ==
    IF ~mint.present THEN Fails("audit_columns", "file_not_found")
    ELSE IF target \notin mint.areas THEN Fails("audit_columns", target)
    ELSE Ok(AuditColumns(target))

\* lines 232-234, 270-271, 391-392
TargetTableList(df) ==
    Values(cleanse_column_list(Unique(Col(df, "Target Table Name"))))

\* lines 216-251
generate_target_table_config(target, df) ==
    IF "Target Table Name" \notin df.columns
    THEN Fails("target_table_config", Raised("KeyError", "Target Table Name"))
    ELSE Ok([action |-> IF target \in {"landing-zone", "bronze"}
                        THEN "ingest" ELSE "merge",
             target_data_area |-> target,
             config_storage_account |-> "mintetl[env]configeus",
             key_vault_name |-> "mintetl[env]keyvaulteus",
             target_table_list |-> TargetTableList(df)])

\* DataFrame.sort_values(by=c) of rows whose c is a number: ascending, rows
\* of equal key in their order (what the sort does for frames this small).
RECURSIVE InsertByKey(_, _, _)
InsertByKey(r, s, c) ==
    IF s = <<>> THEN <<r>>
    ELSE IF Head(s)[c].n > r[c].n THEN <<r>> \o s
    ELSE <<Head(s)>> \o InsertByKey(r, Tail(s), c)

RECURSIVE SortValues(_, _)
SortValues(s, c) ==
    IF s = <<>> THEN <<>>
    ELSE InsertByKey(s[Len(s)], SortValues(SubSeq(s, 1, Len(s) - 1), c), c)

\* The same list without sort_values: the rows in file order.
OrderedTargetColumns_unsorted(tdf, c) ==
    LET picked == SelectSeq(tdf.rows, LAMBDA r : ~IsNa(r[c]))
    IN  Values(cleanse_column_list(
            [i \in DOMAIN picked |-> picked[i]["Target Column Name"]]))

\* lines 291-292 and 295-296: table_mapping_df.loc[df[c].notnull()]
\*   .sort_values(by=c)['Target Column Name'].tolist(), cleansed
OrderedTargetColumns(tdf, c) ==
    LET picked == SelectSeq(tdf.rows, LAMBDA r : ~IsNa(r[c]))
        sorted == SortValues(picked, c)
    IN  Values(cleanse_column_list(
            [i \in DOMAIN sorted |-> sorted[i]["Target Column Name"]]))

\* lines 312-338, one row of the loop.  The filtered frame keeps the dtypes
\* of the whole frame df, which decide whether .str.strip() is allowed.
TargetColumnSchema(df, row, schema) ==
    LET names == cleanse_column_list(<<row["Target Column Name"]>>)
        sources == cleanse_column_list(<<row["Source Column Name"]>>)
        found == SelectSeq(schema.columns, LAMBDA col : col.name = sources[1].v)
    IN  IF \E c \in BasicColumns : ~HasStrAccessor(df, c)
        THEN Fails("AttributeError", ".str")
        ELSE IF names = <<>> THEN Fails("IndexError", "Target Column Name")
        ELSE IF IsNa(row["Source Column Name"])
        THEN IF "Data Type" \notin df.columns THEN Fails("KeyError", "Data Type")
             ELSE Ok([name |-> names[1].v, type |-> MapCellType(row["Data Type"])])
        ELSE IF sources = <<>> THEN Fails("IndexError", "Source Column Name")
        ELSE IF found = <<>> THEN Fails("IndexError", sources[1].v)
        ELSE Ok([name |-> names[1].v, type |-> MapType(found[1].type)])

\* lines 274-350, one target table of the loop
TargetSchemaOf(target, source_schema_dict, df, mint, target_table_name) ==
    LET table_mapping_df == FilterEq(df, "Target Table Name", target_table_name)
        source_tables == Unique(Col(table_mapping_df, "Source Table Name"))
        source_table_name == source_tables[1]
        schema == DictGet(source_schema_dict, source_table_name.v)
        merge == target \in {"silver", "gold"}
        sort_columns_list ==
            OrderedTargetColumns(table_mapping_df, "Order By")
            \o (IF merge THEN <<(<<"MergeKey">>)>> ELSE <<>>)
        partition_columns_list ==
            OrderedTargetColumns(table_mapping_df, "Partition By")
            \o (IF merge THEN <<>> ELSE <<(<<"IngestDate">>)>>)
        first == IF merge THEN <<[name |-> <<"MergeKey">>, type |-> "string"]>>
                 ELSE <<>>
        cols == [i \in DOMAIN table_mapping_df.rows |->
                    TargetColumnSchema(df, table_mapping_df.rows[i], schema)]
        audit == get_data_area_audit_columns(mint, target)
    IN  IF ~({"Source Table Name", "Target Table Name"} \subseteq df.columns)
        THEN Fails("KeyError", "Source Table Name")
        ELSE IF source_tables = <<>> THEN Fails("IndexError", target_table_name)
        ELSE IF ~IsStr(source_table_name)
                \/ ~DictHas(source_schema_dict, source_table_name.v)
        THEN Fails("KeyError", source_table_name)
        ELSE IF ~({"Order By", "Partition By", "Target Column Name",
                   "Source Column Name"} \subseteq df.columns)
        THEN Fails("KeyError", "Order By")
        ELSE IF FirstError(cols) # NoError THEN [err |-> FirstError(cols), val |-> <<>>]
        ELSE IF audit.err # NoError THEN audit
        ELSE Ok([domain |-> Domain,
                 table_name |-> target_table_name,
                 sort_columns |-> sort_columns_list,
                 partition_columns |-> partition_columns_list,
                 columns |-> first
                             \o [i \in DOMAIN cols |-> cols[i].val]
                             \o audit.val])

\* lines 253-358: any exception is raised again as one ValueError.
generate_target_schema_config(target, source_schema_dict, df, mint) ==
    LET target_table_list == TargetTableList(df)
        each == [i \in DOMAIN target_table_list |->
                    TargetSchemaOf(target, source_schema_dict, df, mint,
                                   target_table_list[i])]
    IN  IF "Target Table Name" \notin df.columns
        THEN Fails("target_schema", Raised("KeyError", "Target Table Name"))
        ELSE IF FirstError(each) # NoError
        THEN Fails("target_schema", FirstError(each))
        ELSE Ok([i \in DOMAIN each |-> <<target_table_list[i], each[i].val>>])

-----------------------------------------------------------------------------
(* core/functions.py: the pipeline linkage and the column mapping.         *)

\* df[['Source Table Name', 'Target Table Name']].drop_duplicates().dropna()
SourceTargetPairs(df) ==
    SelectSeq(
        Deduplicate([i \in DOMAIN df.rows |->
                        <<df.rows[i]["Source Table Name"],
                          df.rows[i]["Target Table Name"]>>]),
        LAMBDA p : ~IsNa(p[1]) /\ ~IsNa(p[2]))

\* lines 367-378: each pair is stored under its target table name.
RECURSIVE PipelineDict(_, _, _)
PipelineDict(pairs, target, d) ==
    IF pairs = <<>> THEN d
    ELSE LET source_table_name == cleanse_column_list(<<Head(pairs)[1]>>)[1].v
             target_table_name == cleanse_column_list(<<Head(pairs)[2]>>)[1].v
         IN  PipelineDict(Tail(pairs), target,
                DictPut(d, target_table_name,
                    [source_data_area |-> TARGET_SOURCE_AREA_MAP[target],
                     source_table_path |-> "cura",
                     source_table_name |-> source_table_name,
                     target_data_area |-> target,
                     target_table_path |-> "cura",
                     target_table_name |-> target_table_name]))

\* lines 360-386
generate_pipeline_config(target, df) ==
    LET pairs == SourceTargetPairs(df)
    IN  IF ~({"Source Table Name", "Target Table Name"} \subseteq df.columns)
        THEN Fails("pipeline", Raised("KeyError", "Source Table Name"))
        ELSE IF \E i \in DOMAIN pairs :
                    \/ cleanse_column_list(<<pairs[i][1]>>) = <<>>
                    \/ cleanse_column_list(<<pairs[i][2]>>) = <<>>
        THEN Fails("pipeline", Raised("IndexError", "cleanse_column_list"))
        ELSE IF pairs # <<>> /\ target \notin DOMAIN TARGET_SOURCE_AREA_MAP
        THEN Fails("pipeline", Raised("KeyError", target))
        ELSE Ok(PipelineDict(pairs, target, <<>>))

\* str.lower() of the words an 'Is Business Key' cell may hold
LowerWord(w) ==
    CASE w \in {"Y", "y"} -> "y"
      [] w \in {"YES", "Yes", "yes"} -> "yes"
      [] w \in {"TRUE", "True", "true"} -> "true"
      [] w \in {"T", "t"} -> "t"
      [] w \in {"X", "x"} -> "x"
      [] w \in {"N", "n"} -> "n"
      [] w \in {"NO", "No", "no"} -> "no"
      [] OTHER -> w

lower(s) == [i \in DOMAIN s |-> LowerWord(s[i])]

\* line 407
affirmative_responses ==
    {<<"y">>, <<"yes">>, <<"true">>, <<"t">>, <<"1">>, <<"x">>}

\* The same test without .str.lower().
IsBusinessKey_case_sensitive(c) == IsStr(c) /\ c.v \in affirmative_responses

\* line 415: .str.lower().isin(affirmative_responses); NaN is in nothing.
IsBusinessKey(c) == IsStr(c) /\ lower(c.v) \in affirmative_responses

\* The texts a 'Transformation Function' cell may hold and what json.loads
\* makes of them; every other text raises JSONDecodeError.
JsonConst == "{\"function\":\"const\",\"params\":{\"value\":0}}"
JsonTyped == "{\"function\":\"cast\",\"type\":\"int\"}"
JsonArray == "[1]"

JsonDocuments ==
    (JsonConst :> [kind |-> "object",
                   val |-> ("function" :> "const" @@ "params" :> ("value" :> 0))])
    @@ (JsonTyped :> [kind |-> "object",
                      val |-> ("function" :> "cast" @@ "type" :> "int")])
    @@ (JsonArray :> [kind |-> "array", val |-> <<1>>])

\* A parser that takes any text for an empty object.
json_loads_lenient(s) ==
    LET body == SelectSeq(s, LAMBDA a : a # " ")
    IN  IF Len(body) = 1 /\ body[1] \in DOMAIN JsonDocuments
        THEN [err |-> NoError, doc |-> JsonDocuments[body[1]]]
        ELSE [err |-> NoError, doc |-> [kind |-> "object", val |-> <<>>]]

\* json.loads skips the blanks around the document.
json_loads(s) ==
    LET body == SelectSeq(s, LAMBDA a : a # " ")
    IN  IF Len(body) = 1 /\ body[1] \in DOMAIN JsonDocuments
        THEN [err |-> NoError, doc |-> JsonDocuments[body[1]]]
        ELSE [err |-> Raised("JSONDecodeError", s), doc |-> <<>>]

\* lines 419-429
merge_key_column(business_key_columns_list) ==
    [name |-> <<"MergeKey">>,
     type |-> "string",
     source |-> [function |-> "key_hash",
                 params |-> [column_names |-> business_key_columns_list],
                 type |-> "string"]]

\* lines 415-417
BusinessKeyColumns(fdf) ==
    LET marked == SelectSeq(fdf.rows, LAMBDA r : IsBusinessKey(r["Is Business Key"]))
    IN  Values(cleanse_column_list(
            [i \in DOMAIN marked |-> marked[i]["Target Column Name"]]))

\* lines 433-478, one row of the loop: a column, a skipped row (skip), or an
\* exception (err).
ColumnMapping(df, source_schema_dict, row) ==
    LET Col1(c) == [err |-> NoError, skip |-> FALSE, val |-> c]
        Raise(kind, detail) == [err |-> Raised(kind, detail), skip |-> FALSE, val |-> <<>>]
        target_column_name == strip(row["Target Column Name"].v)
        source_column == row["Source Column Name"]
        source_table == row["Source Table Name"]
        declared ==
            IF "Data Type" \in df.columns
            THEN IF IsStr(row["Data Type"])
                 THEN MapCellType(Str(strip(row["Data Type"].v)))
                 ELSE MapCellType(row["Data Type"])
            ELSE "string"
        source_column_name == cleanse_column_list(<<source_column>>)[1].v
        source_table_name == cleanse_column_list(<<source_table>>)[1].v
        columns == IF DictHas(source_schema_dict, source_table_name)
                   THEN DictGet(source_schema_dict, source_table_name).columns
                   ELSE <<>>
        found == SelectSeq(columns, LAMBDA col : col.name = source_column_name)
        function == row["Transformation Function"]
        parsed == json_loads(function.v)
    IN  IF ~(BasicColumns \subseteq df.columns)
        THEN Raise("KeyError", "Source Column Name")
        ELSE IF ~IsStr(row["Target Column Name"])
        THEN Raise("AttributeError", "Target Column Name")
        ELSE IF /\ IsStr(source_column) /\ strip(source_column.v) # <<>>
                /\ IsStr(source_table) /\ strip(source_table.v) # <<>>
        THEN IF found = <<>> THEN Raise("IndexError", source_column_name)
             ELSE Col1([name |-> target_column_name,
                        type |-> MapType(found[1].type),
                        source |-> [name |-> source_column_name,
                                    type |-> MapType(found[1].type)]])
        ELSE IF /\ "Transformation Function" \in df.columns
                /\ IsStr(function) /\ function.v # <<>>
        THEN IF parsed.err # NoError
             THEN [err |-> NoError, skip |-> TRUE, val |-> <<>>]
             ELSE IF parsed.doc.kind # "object"
             THEN Raise("TypeError", function.v)
             ELSE Col1([name |-> target_column_name,
                        type |-> declared,
                        source |-> ("type" :> "string") @@ parsed.doc.val])
        ELSE Col1([name |-> target_column_name, type |-> declared, source |-> <<>>])

\* lines 394-489, one target table of the loop
MappingConfigOf(target, source_schema_dict, df, target_table_name) ==
    LET filtered_mapping_df == FilterEq(df, "Target Table Name", target_table_name)
        keyed == "Is Business Key" \in df.columns
        first == IF keyed
                 THEN <<merge_key_column(BusinessKeyColumns(filtered_mapping_df))>>
                 ELSE <<>>
        each == [i \in DOMAIN filtered_mapping_df.rows |->
                    ColumnMapping(df, source_schema_dict, filtered_mapping_df.rows[i])]
        kept == SelectSeq(each, LAMBDA r : ~r.skip)
        columns == first \o [i \in DOMAIN kept |-> kept[i].val]
    IN  IF target \notin DOMAIN TARGET_SOURCE_AREA_MAP
        THEN Fails("KeyError", target)
        ELSE IF keyed /\ ~HasStrAccessor(df, "Is Business Key")
        THEN Fails("AttributeError", ".str")
        ELSE IF keyed /\ "Target Column Name" \notin df.columns
        THEN Fails("KeyError", "Target Column Name")
        ELSE IF FirstError(each) # NoError
        THEN [err |-> FirstError(each), val |-> <<>>]
        ELSE IF columns = <<>> THEN Fails("empty_mapping", target_table_name)
        ELSE Ok([domain |-> Domain,
                 table_name |-> target_table_name,
                 source |-> TARGET_SOURCE_AREA_MAP[target],
                 target |-> target,
                 columns |-> columns])

\* lines 388-491: no try block, the first exception leaves the function.
generate_mapping_config(target, source_schema_dict, df) ==
    LET target_table_list == TargetTableList(df)
        each == [i \in DOMAIN target_table_list |->
                    MappingConfigOf(target, source_schema_dict, df,
                                    target_table_list[i])]
    IN  IF "Target Table Name" \notin df.columns
        THEN Fails("KeyError", "Target Table Name")
        ELSE IF FirstError(each) # NoError
        THEN [err |-> FirstError(each), val |-> <<>>]
        ELSE Ok([i \in DOMAIN each |-> <<target_table_list[i], each[i].val>>])

-----------------------------------------------------------------------------
(* The sanitizer called on its own.                                        *)

CleanseAlphabet == {"A", "B", " ", "U+00A0", "U+200B"}

CleanseEntries ==
    {None, NaN} \cup {Str(s) : s \in SeqsUpTo(CleanseAlphabet, MaxStrLen)}

\* cleanse(["A "," A","",None,"B"]), the documented example
DocumentedExample ==
    <<Str(<<"A", " ">>), Str(<<" ", "A">>), Str(<<>>), None, Str(<<"B">>)>>

NoFrame == [columns |-> {}, rows |-> <<>>]

\* No run came before this one.
NoRun == [pc |-> "none", files |-> <<>>]

\* Nothing validated, generated or written yet.
NothingDone ==
    /\ mapping_file_df = NoFrame
    /\ resolver_table_name = <<>>
    /\ environment = [vault_ok |-> TRUE, db_ok |-> TRUE]
    /\ resolver_outcome = Ok(<<>>)
    /\ collaborator_calls = <<>>
    /\ previous_run = NoRun
    /\ original_source_tables_schema_dict = <<>>
    /\ files = <<>>
    /\ output_config_files = <<>>
    /\ error = NoError
    /\ target_tables_dict = Ok(<<>>)
    /\ target_schema_config_dict = Ok(<<>>)
    /\ pipeline_config_dict = Ok(<<>>)
    /\ mapping_config_dict = Ok(<<>>)

InitCleanse ==
    /\ pc = "cleanse"
    /\ column_list \in SeqsUpTo(CleanseEntries, MaxLen) \cup {DocumentedExample}
    /\ cleansed_column_list = <<>>
    /\ target_data_area = ""
    /\ mapping_file = NoFrame
    /\ mint_data_areas = [present |-> FALSE, areas |-> {}]
    /\ source_tables_schema_dict = <<>>
    /\ NothingDone

CallCleanse ==
    /\ pc = "cleanse"
    /\ cleansed_column_list' = cleanse_column_list(column_list)
    /\ pc' = "cleansed"
    /\ UNCHANGED <<resolving, previous_run, column_list, inputs, mapping_file_df, source_tables_schema_dict,
                   original_source_tables_schema_dict, files, output_config_files,
                   error, generated>>

NextCleanse == CallCleanse

SpecCleanse == InitCleanse /\ [][NextCleanse]_vars

-----------------------------------------------------------------------------
(* Mapping files.                                                          *)

MappingRow(st, sc, tt, tc, dt, ob, pb, bk, dv, tf) ==
    ("Source Table Name" :> st) @@ ("Source Column Name" :> sc)
    @@ ("Target Table Name" :> tt) @@ ("Target Column Name" :> tc)
    @@ ("Data Type" :> dt) @@ ("Order By" :> ob) @@ ("Partition By" :> pb)
    @@ ("Is Business Key" :> bk) @@ ("Default Value" :> dv)
    @@ ("Transformation Function" :> tf)

\* The frame pandas reads from a file with this header and these rows.
Frame(header, rows) ==
    [columns |-> header,
     rows |-> [i \in DOMAIN rows |-> [c \in header |-> rows[i][c]]]]

Frames(headers, pool) ==
    {Frame(h, rows) : h \in headers, rows \in SeqsUpTo(pool, MaxRows)}

TargetDataAreas == {"landing-zone", "bronze", "silver", "gold"}

\* The source side of a row: table, column, transformation function.
RunSources ==
    {<<Word("ORDERS"), Word("id"), NaN>>,
     <<Word("ORDERS"), Word("email"), NaN>>,
     <<Word("CUSTOMERS"), Word("phone"), NaN>>,
     <<Str(<<"ORDERS", " ">>), Word("name"), NaN>>,
     <<Word("ORDERS"), NaN, Word(JsonConst)>>,
     <<NaN, NaN, Word(JsonConst)>>,
     <<NaN, NaN, Word("oops")>>}

\* The target side: table, column, data type, order, partition, key mark.
RunTargets ==
    {<<Word("DimOrders"), Word("OrderId"), Word("int"), Num(1), NaN, Word("Y")>>,
     <<Word("DimOrders"), Word("OrderName"), NaN, NaN, Num(1), NaN>>}

RunRows ==
    {MappingRow(s[1], s[2], t[1], t[2], t[3], t[4], t[5], t[6], NaN, s[3]) :
        s \in RunSources, t \in RunTargets}

RunHeaders ==
    {AllColumns, BasicColumns, AllColumns \ {"Order By", "Data Type"},
     BasicColumns \ {"Source Column Name"}}

-----------------------------------------------------------------------------
(* main.py and process_mapping_file: one run.                              *)

Init ==
    /\ pc = "main"
    /\ column_list = <<>>
    /\ cleansed_column_list = <<>>
    /\ target_data_area \in TargetDataAreas
    /\ mapping_file \in Frames(RunHeaders, RunRows)
    /\ mint_data_areas \in MintConfigs
    /\ source_tables_schema_dict = <<>>
    /\ NothingDone

\* The exception leaves main.
Abort(e) ==
    /\ pc' = "failed"
    /\ error' = e

\* main.py line 17
MainValidate ==
    /\ pc = "main"
    /\ \E env \in Envs :
          LET r == validate_mapping_file(mapping_file, target_data_area, files, env)
          IN  IF r.err # NoError
              THEN /\ Abort(r.err)
                   /\ UNCHANGED <<mapping_file_df, source_tables_schema_dict>>
              ELSE /\ pc' = "validated"
                   /\ mapping_file_df' = r.df
                   /\ source_tables_schema_dict' = r.dict
                   /\ UNCHANGED error
    /\ UNCHANGED <<resolving, previous_run, cleansing, inputs, original_source_tables_schema_dict, files,
                   output_config_files, generated>>

\* main.py lines 19-29
MainCheck ==
    /\ pc = "validated"
    /\ IF Len(mapping_file_df.rows) = 0
       THEN Abort(Raised("mapping_file_empty", <<>>))
       ELSE IF Len(source_tables_schema_dict) = 0
       THEN Abort(Raised("source_tables_schema_dict_empty", <<>>))
       ELSE pc' = "target_tables" /\ UNCHANGED error
    /\ UNCHANGED <<resolving, previous_run, cleansing, inputs, mapping_file_df, source_tables_schema_dict,
                   original_source_tables_schema_dict, files, output_config_files,
                   generated>>

\* The files after the first k of the writes, each a <<file name, content>>.
RECURSIVE WriteFirst(_, _, _, _)
WriteFirst(fs, area, writes, k) ==
    IF k = 0 THEN fs
    ELSE write_config_file(WriteFirst(fs, area, writes, k - 1), area,
                           writes[k][1], writes[k][2])

\* One block of process_mapping_file: the generator's outcome r, then its
\* writes in order.  A write may raise (lines 90-103); lines 570-574 raise any
\* exception again as one ValueError.
WriteStage(r, writes, next) ==
    IF r.err # NoError
    THEN /\ Abort(Raised("processing", r.err))
         /\ UNCHANGED <<files, output_config_files>>
    ELSE \E k \in 0..Len(writes) :
            /\ files' = WriteFirst(files, target_data_area, writes, k)
            /\ output_config_files' =
                  output_config_files \o [i \in 1..k |-> writes[i][1]]
            /\ IF k < Len(writes)
               THEN Abort(Raised("processing", Raised("write", writes[k + 1][1])))
               ELSE pc' = next /\ UNCHANGED error

\* lines 510-515
TargetTablesStage ==
    /\ pc = "target_tables"
    /\ LET r == generate_target_table_config(target_data_area, mapping_file_df)
       IN  /\ target_tables_dict' = r
           /\ WriteStage(r,
                <<<<FileName(target_data_area, "target_tables", Domain), r.val>>>>,
                "source_schemas")
    /\ UNCHANGED <<resolving, previous_run, cleansing, inputs, mapping_file_df, source_tables_schema_dict,
                   original_source_tables_schema_dict, target_schema_config_dict,
                   pipeline_config_dict, mapping_config_dict>>

\* line 526: the target table of the first row whose source table is the key
EchoTargetTables(df, source_table) ==
    Unique(Col(FilterEq(df, "Source Table Name", source_table), "Target Table Name"))

\* str(float('nan')) in an f-string
Formatted(c) == IF IsStr(c) THEN c.v ELSE <<"nan">>

\* lines 529-530
AsStrings(schema) ==
    [schema EXCEPT !.columns =
        [i \in DOMAIN schema.columns |-> [schema.columns[i] EXCEPT !.type = "string"]]]

\* lines 517-535
SourceSchemasStage ==
    /\ pc = "source_schemas"
    /\ LET d == source_tables_schema_dict
           source_data_area == TARGET_SOURCE_AREA_MAP[target_data_area]
           echoed == [i \in DOMAIN d |->
                        <<d[i][1],
                          IF source_data_area = "landing-zone"
                          THEN AsStrings(d[i][2]) ELSE d[i][2]>>]
           lost == {i \in DOMAIN d : EchoTargetTables(mapping_file_df, d[i][1]) = <<>>}
           n == IF lost = {} THEN Len(d)
                ELSE (CHOOSE i \in lost : \A j \in lost : i <= j) - 1
           writes == [i \in 1..n |->
                        <<FileName(source_data_area, "schema",
                                   Formatted(EchoTargetTables(mapping_file_df,
                                                              d[i][1])[1])),
                          echoed[i][2]>>]
       IN  /\ original_source_tables_schema_dict' = d
           /\ \E k \in 0..n :
                /\ files' = WriteFirst(files, target_data_area, writes, k)
                /\ output_config_files' =
                      output_config_files \o [i \in 1..k |-> writes[i][1]]
                /\ source_tables_schema_dict' =
                      [i \in DOMAIN d |->
                          IF i <= k \/ (i = k + 1 /\ k < n) THEN echoed[i] ELSE d[i]]
                /\ IF k < n
                   THEN Abort(Raised("processing", Raised("write", writes[k + 1][1])))
                   ELSE IF lost # {}
                   THEN Abort(Raised("processing", Raised("IndexError", d[n + 1][1])))
                   ELSE pc' = "target_schemas" /\ UNCHANGED error
    /\ UNCHANGED <<resolving, previous_run, cleansing, inputs, mapping_file_df, generated>>

\* The writes of a dict of configs, one file per key.
ConfigWrites(d, kind) ==
    [i \in DOMAIN d |-> <<FileName(target_data_area, kind, d[i][1]), d[i][2]>>]

\* The same block handed the dictionary that lines 529-530 have overwritten.
TargetSchemasStage_after_overwrite ==
    /\ pc = "target_schemas"
    /\ LET r == generate_target_schema_config(target_data_area,
                    source_tables_schema_dict, mapping_file_df, mint_data_areas)
       IN  /\ target_schema_config_dict' = r
           /\ WriteStage(r, ConfigWrites(r.val, "schema"), "pipelines")
    /\ UNCHANGED <<resolving, previous_run, cleansing, inputs, mapping_file_df,
                   source_tables_schema_dict, original_source_tables_schema_dict,
                   target_tables_dict, pipeline_config_dict, mapping_config_dict>>

\* lines 537-544
TargetSchemasStage ==
    /\ pc = "target_schemas"
    /\ LET r == generate_target_schema_config(target_data_area,
                    original_source_tables_schema_dict, mapping_file_df,
                    mint_data_areas)
       IN  /\ target_schema_config_dict' = r
           /\ WriteStage(r, ConfigWrites(r.val, "schema"), "pipelines")
    /\ UNCHANGED <<resolving, previous_run, cleansing, inputs, mapping_file_df, source_tables_schema_dict,
                   original_source_tables_schema_dict, target_tables_dict,
                   pipeline_config_dict, mapping_config_dict>>

\* lines 546-553
PipelinesStage ==
    /\ pc = "pipelines"
    /\ LET r == generate_pipeline_config(target_data_area, mapping_file_df)
       IN  /\ pipeline_config_dict' = r
           /\ WriteStage(r, ConfigWrites(r.val, "pipeline"), "mappings")
    /\ UNCHANGED <<resolving, previous_run, cleansing, inputs, mapping_file_df, source_tables_schema_dict,
                   original_source_tables_schema_dict, target_tables_dict,
                   target_schema_config_dict, mapping_config_dict>>

\* lines 555-576
MappingsStage ==
    /\ pc = "mappings"
    /\ LET r == generate_mapping_config(target_data_area,
                    original_source_tables_schema_dict, mapping_file_df)
       IN  /\ mapping_config_dict' = r
           /\ WriteStage(r, ConfigWrites(r.val, "map"), "done")
    /\ UNCHANGED <<resolving, previous_run, cleansing, inputs, mapping_file_df, source_tables_schema_dict,
                   original_source_tables_schema_dict, target_tables_dict,
                   target_schema_config_dict, pipeline_config_dict>>

Next ==
    \/ MainValidate
    \/ MainCheck
    \/ TargetTablesStage
    \/ SourceSchemasStage
    \/ TargetSchemasStage
    \/ PipelinesStage
    \/ MappingsStage

Spec == Init /\ [][Next]_vars

\* Runs over files whose rows name source columns the catalog has, or carry
\* a transformation function next to a source table.
CompileSources ==
    {<<Word("ORDERS"), Word("id"), NaN>>,
     <<Word("ORDERS"), Word("name"), NaN>>,
     <<Word("CUSTOMERS"), Word("id"), NaN>>,
     <<Word("ORDERS"), NaN, Word(JsonConst)>>}

CompileTargets ==
    {<<Word("DimOrders"), Word("OrderId")>>,
     <<Word("DimOrders"), Word("OrderName")>>,
     <<Word("DimCustomers"), Word("CustomerId")>>}

CompileRows ==
    {MappingRow(s[1], s[2], t[1], t[2], NaN, NaN, NaN, Word("Y"), NaN, s[3]) :
        s \in CompileSources, t \in CompileTargets}

InitCompile ==
    /\ pc = "main"
    /\ column_list = <<>>
    /\ cleansed_column_list = <<>>
    /\ target_data_area \in TargetDataAreas
    /\ mapping_file \in Frames({AllColumns}, CompileRows)
    /\ mint_data_areas \in MintConfigs
    /\ source_tables_schema_dict = <<>>
    /\ NothingDone

SpecCompile == InitCompile /\ [][Next]_vars

\* After a run that came to its end main is invoked once more with the same
\* arguments; the output folder is as the run before left it.
RunAgain ==
    /\ pc = "done"
    /\ previous_run = NoRun
    /\ previous_run' = [pc |-> pc, files |-> files]
    /\ pc' = "main"
    /\ mapping_file_df' = NoFrame
    /\ source_tables_schema_dict' = <<>>
    /\ original_source_tables_schema_dict' = <<>>
    /\ output_config_files' = <<>>
    /\ error' = NoError
    /\ target_tables_dict' = Ok(<<>>)
    /\ target_schema_config_dict' = Ok(<<>>)
    /\ pipeline_config_dict' = Ok(<<>>)
    /\ mapping_config_dict' = Ok(<<>>)
    /\ UNCHANGED <<resolving, cleansing, inputs, files>>

NextTwice ==
    \/ Next
    \/ RunAgain

SpecTwice == InitCompile /\ [][NextTwice]_vars

-----------------------------------------------------------------------------
(* The generators called on their own, with the schemas of the catalog.    *)

\* The source schema of every table of the catalog, as validation builds it.
CatalogSchemaDict ==
    <<<<(<<"ORDERS">>), [domain |-> Domain, table_name |-> <<"ORDERS">>,
                         columns |-> SqlCatalog[<<"ORDERS">>]]>>,
      <<(<<"CUSTOMERS">>), [domain |-> Domain, table_name |-> <<"CUSTOMERS">>,
                            columns |-> SqlCatalog[<<"CUSTOMERS">>]]>>>>

\* Rows for the target schema: source table, source column and data type;
\* target table and column; order and partition.
SchemaSources ==
    {<<Word("ORDERS"), Word("id"), NaN>>,
     <<NaN, NaN, Word("decimal")>>}

SchemaTargets ==
    {<<Word("DimOrders"), Word("OrderId")>>,
     <<Word("DimOrders"), Str(<<" ", "OrderName">>)>>,
     <<Word("DimOrders"), Str(<<" ">>)>>,
     <<Word("DimOrders"), Word("MergeKey")>>,
     <<Word("DimCustomers"), Word("OrderId")>>}

SchemaOrders == {<<NaN, NaN>>, <<Num(1), Num(2)>>, <<Num(2), Num(1)>>}

SchemaRows ==
    {MappingRow(s[1], s[2], t[1], t[2], s[3], o[1], o[2], Word("Y"), NaN, NaN) :
        s \in SchemaSources, t \in SchemaTargets, o \in SchemaOrders}

InitGenerators(frames) ==
    /\ pc = "target_table_config"
    /\ column_list = <<>>
    /\ cleansed_column_list = <<>>
    /\ target_data_area \in TargetDataAreas
    /\ mapping_file \in frames
    /\ mint_data_areas = [present |-> TRUE, areas |-> TargetDataAreas]
    /\ source_tables_schema_dict = CatalogSchemaDict
    /\ NothingDone

InitSchema == InitGenerators(Frames({AllColumns}, SchemaRows))

\* Rows for the column mapping: source table, source column and
\* transformation function; target table and column; key mark.
MappingSources ==
    {<<Word("ORDERS"), Word("id"), NaN>>,
     <<NaN, NaN, Word(JsonConst)>>}

MappingTargets ==
    {<<Word("DimOrders"), Word("OrderId")>>,
     <<Word("DimOrders"), Str(<<"OrderName", " ">>)>>,
     <<Word("DimCustomers"), Word("OrderId")>>}

\* A cell read from a spreadsheet may be a number.
KeyMarks == {NaN, Word("Yes"), Word("N"), Num(1)}

MappingRows ==
    {MappingRow(s[1], s[2], t[1], t[2], NaN, NaN, NaN, k, NaN, s[3]) :
        s \in MappingSources, t \in MappingTargets, k \in KeyMarks}

MappingHeaders == {AllColumns, AllColumns \ {"Is Business Key"}}

InitMapping == InitGenerators(Frames(MappingHeaders, MappingRows))

\* generate_target_table_config(target_data_area, mapping_file_df)
CallTargetTableConfig ==
    /\ pc = "target_table_config"
    /\ target_tables_dict' = generate_target_table_config(target_data_area, mapping_file)
    /\ pc' = "target_schema_config"
    /\ UNCHANGED <<resolving, previous_run, cleansing, inputs, mapping_file_df, source_tables_schema_dict,
                   original_source_tables_schema_dict, files, output_config_files,
                   error, target_schema_config_dict, pipeline_config_dict,
                   mapping_config_dict>>

\* generate_target_schema_config(domain, target_data_area, source_schema_dict,
\*                               mapping_file_df)
CallTargetSchemaConfig ==
    /\ pc = "target_schema_config"
    /\ target_schema_config_dict' =
          generate_target_schema_config(target_data_area, source_tables_schema_dict,
                                        mapping_file, mint_data_areas)
    /\ pc' = "pipeline_config"
    /\ UNCHANGED <<resolving, previous_run, cleansing, inputs, mapping_file_df, source_tables_schema_dict,
                   original_source_tables_schema_dict, files, output_config_files,
                   error, target_tables_dict, pipeline_config_dict,
                   mapping_config_dict>>

\* generate_pipeline_config(domain, target_data_area, mapping_file_df)
CallPipelineConfig ==
    /\ pc = "pipeline_config"
    /\ pipeline_config_dict' = generate_pipeline_config(target_data_area, mapping_file)
    /\ pc' = "mapping_config"
    /\ UNCHANGED <<resolving, previous_run, cleansing, inputs, mapping_file_df, source_tables_schema_dict,
                   original_source_tables_schema_dict, files, output_config_files,
                   error, target_tables_dict, target_schema_config_dict,
                   mapping_config_dict>>

\* generate_mapping_config(domain, target_data_area, source_schema_dict,
\*                         mapping_file_df)
CallMappingConfig ==
    /\ pc = "mapping_config"
    /\ mapping_config_dict' =
          generate_mapping_config(target_data_area, source_tables_schema_dict,
                                  mapping_file)
    /\ pc' = "returned"
    /\ UNCHANGED <<resolving, previous_run, cleansing, inputs, mapping_file_df, source_tables_schema_dict,
                   original_source_tables_schema_dict, files, output_config_files,
                   error, target_tables_dict, target_schema_config_dict,
                   pipeline_config_dict>>

NextGenerators ==
    \/ CallTargetTableConfig
    \/ CallTargetSchemaConfig
    \/ CallPipelineConfig
    \/ CallMappingConfig

SpecSchema == InitSchema /\ [][NextGenerators]_vars

SpecMapping == InitMapping /\ [][NextGenerators]_vars

\* Rows for the types: a source column or a transformation function, with a
\* declared data type that is empty, in the dictionary, in another case,
\* padded, or unknown.
TypeSources ==
    {<<Word("ORDERS"), Word("id"), NaN>>,
     <<Word("ORDERS"), NaN, Word(JsonConst)>>}

TypeTargets ==
    {<<Word("DimOrders"), Word("OrderId")>>,
     <<Word("DimOrders"), Word("OrderName")>>}

DataTypes ==
    {NaN, Word("int"), Word("INT"), Str(<<" ", "decimal">>), Word("nvarchar"),
     Word("date")}

TypeRows ==
    {MappingRow(s[1], s[2], t[1], t[2], d, NaN, NaN, Word("Y"), NaN, s[3]) :
        s \in TypeSources, t \in TypeTargets, d \in DataTypes}

TypeHeaders == {AllColumns, AllColumns \ {"Data Type"}}

InitTypes == InitGenerators(Frames(TypeHeaders, TypeRows))

SpecTypes == InitTypes /\ [][NextGenerators]_vars

\* Rows for the transformation functions: a source column, a JSON object, a
\* text that is no JSON, a JSON array.
ParseSources ==
    {<<Word("ORDERS"), Word("id"), NaN>>,
     <<NaN, NaN, Word(JsonConst)>>,
     <<NaN, NaN, Word("oops")>>,
     <<NaN, NaN, Word(JsonArray)>>}

ParseTargets ==
    {<<Word("DimOrders"), Word("OrderId")>>,
     <<Word("DimOrders"), Word("OrderName")>>,
     <<Word("DimCustomers"), Word("CustomerId")>>}

ParseRows ==
    {MappingRow(s[1], s[2], t[1], t[2], NaN, NaN, NaN, Word("Y"), NaN, s[3]) :
        s \in ParseSources, t \in ParseTargets}

InitParse == InitGenerators(Frames(MappingHeaders, ParseRows))

SpecParse == InitParse /\ [][NextGenerators]_vars

-----------------------------------------------------------------------------
(* generate_source_schema_config called on its own.                        *)

\* The tiers of --target and one that is none of them.
ResolverTargets == TargetDataAreas \cup {"platinum"}

ResolverTables == {<<"ORDERS">>, <<"CUSTOMERS">>, <<"MISSING">>}

\* The schema artifacts an earlier run may have left in the output folder.
SchemaArtifacts ==
    {FilePath(area, FileName(area, "schema", table)) :
        area \in {"bronze", "silver"}, table \in {<<"ORDERS">>, <<"CUSTOMERS">>}}

ArtifactContent(path) ==
    [domain |-> Domain, table_name |-> path[2][3],
     columns |-> <<[name |-> <<"id">>, type |-> "integer"]>>]

ArtifactStores ==
    {[path \in paths |-> ArtifactContent(path)] : paths \in SUBSET SchemaArtifacts}

InitResolver ==
    /\ pc = "resolve"
    /\ column_list = <<>>
    /\ cleansed_column_list = <<>>
    /\ target_data_area \in ResolverTargets
    /\ mapping_file = NoFrame
    /\ mint_data_areas = [present |-> FALSE, areas |-> {}]
    /\ source_tables_schema_dict = <<>>
    /\ mapping_file_df = NoFrame
    /\ original_source_tables_schema_dict = <<>>
    /\ files \in ArtifactStores
    /\ output_config_files = <<>>
    /\ error = NoError
    /\ target_tables_dict = Ok(<<>>)
    /\ target_schema_config_dict = Ok(<<>>)
    /\ pipeline_config_dict = Ok(<<>>)
    /\ mapping_config_dict = Ok(<<>>)
    /\ resolver_table_name \in ResolverTables
    /\ environment \in Envs
    /\ resolver_outcome = Ok(<<>>)
    /\ collaborator_calls = <<>>
    /\ previous_run = NoRun

\* generate_source_schema_config(domain, target_data_area, source_table_name)
CallResolver ==
    /\ pc = "resolve"
    /\ resolver_outcome' =
          generate_source_schema_config(files, target_data_area,
                                        resolver_table_name, environment)
    /\ collaborator_calls' = ResolverCalls(target_data_area, environment)
    /\ pc' = "resolved"
    /\ UNCHANGED <<resolver_table_name, environment, previous_run, cleansing,
                   inputs, mapping_file_df, source_tables_schema_dict,
                   original_source_tables_schema_dict, files, output_config_files,
                   error, generated>>

NextResolver == CallResolver

SpecResolver == InitResolver /\ [][NextResolver]_vars

-----------------------------------------------------------------------------
(* Claims about the sanitizer.                                             *)

\* The form an entry takes in the output: the four characters removed, then
\* trimmed.
TrimmedForm(c) == Str(strip(replace_invisible(c.v)))

IsBlankString(s) == \A i \in DOMAIN s : s[i] \in WhitespaceChars

\* The entries of the input that are strings and not ''.
KeptEntries(l) == {i \in DOMAIN l : IsStr(l[i]) /\ l[i].v # <<>>}

\* out lists the trimmed forms of the kept entries of l in the order of their
\* first occurrence in l.
InFirstSeenOrder(l, out) ==
    \E f \in [DOMAIN out -> DOMAIN l] :
        /\ \A i \in DOMAIN out :
              /\ f[i] \in KeptEntries(l)
              /\ out[i] = TrimmedForm(l[f[i]])
              /\ \A j \in KeptEntries(l) :
                    TrimmedForm(l[j]) = out[i] => f[i] <= j
        /\ \A i, j \in DOMAIN out : i < j => f[i] < f[j]

\* C1: the list cleanse_column_list returns has no duplicates, no empty
\* string, no whitespace-only string and no null entry, and its entries are
\* in the order of their first occurrence in the input.
C1_CleansedListIsClean ==
    pc = "cleansed" =>
        /\ \A i, j \in DOMAIN cleansed_column_list :
              i # j => cleansed_column_list[i] # cleansed_column_list[j]
        /\ \A i \in DOMAIN cleansed_column_list :
              /\ IsStr(cleansed_column_list[i])
              /\ cleansed_column_list[i].v # <<>>
              /\ ~IsBlankString(cleansed_column_list[i].v)
        /\ InFirstSeenOrder(column_list, cleansed_column_list)

\* C2: None and NaN entries are dropped and the others kept: every entry
\* that is a string and not '' is in the output in trimmed form, and the
\* documented example gives ["A", "B"].
C2_NullsDroppedOthersKept ==
    pc = "cleansed" =>
        /\ \A i \in KeptEntries(column_list) :
              \E j \in DOMAIN cleansed_column_list :
                  cleansed_column_list[j] = TrimmedForm(column_list[i])
        /\ column_list = DocumentedExample =>
              cleansed_column_list = <<Word("A"), Word("B")>>

-----------------------------------------------------------------------------
(* Claims about validation and the run.                                    *)

\* The required columns as the specification's table gives them.
DocumentedRequiredColumns(target) ==
    IF target = "landing-zone" THEN BasicColumns ELSE AllColumns

\* The exceptions that leave validate_mapping_file.
ValidationErrors ==
    {"input_file_empty", "no_required_columns", "missing_required_columns",
     "key_vault", "database", "file_not_found", "unresolved_schema",
     "invalid_source_columns"}

\* The failures of a collaborator: the key vault, the database, a write.
EnvironmentFailure(e) ==
    \/ e.kind \in {"key_vault", "database"}
    \/ e.kind = "processing" /\ e.detail.kind = "write"

\* The source columns of the rows that name a table and a column, cleansed,
\* that the catalog does not have for the cleansed table.
OffendingColumns(mf) ==
    {TrimmedForm(mf.rows[i]["Source Column Name"]).v :
        i \in {j \in DOMAIN mf.rows :
                /\ IsStr(mf.rows[j]["Source Table Name"])
                /\ IsStr(mf.rows[j]["Source Column Name"])
                /\ ~\E col \in DOMAIN get_sql_table_schema(
                          TrimmedForm(mf.rows[j]["Source Table Name"]).v) :
                      get_sql_table_schema(
                          TrimmedForm(mf.rows[j]["Source Table Name"]).v)[col].name
                      = TrimmedForm(mf.rows[j]["Source Column Name"]).v}}

Elements(l) == {l[i] : i \in DOMAIN l}

\* C3: for each of the four tiers, a file whose header lacks a required
\* column fails validation with exactly the missing set (landing-zone needs
\* the four name columns, bronze, silver and gold all ten), and a file with
\* every required column passes the step.
C3_MissingColumnsReported ==
    (pc # "main" /\ mapping_file.rows # <<>>) =>
        LET missing == DocumentedRequiredColumns(target_data_area)
                       \ mapping_file.columns
        IN  IF missing # {}
            THEN error = Raised("missing_required_columns", missing)
            ELSE error.kind \notin {"missing_required_columns", "no_required_columns"}

\* C4: validation fails whenever a row names a source table and a source
\* column the table's resolved schema does not have, and the error lists
\* every such column of every source table.
C4_InvalidSourceColumnsRejected ==
    (pc # "main" /\ target_data_area = "bronze"
        /\ AllColumns \subseteq mapping_file.columns
        /\ OffendingColumns(mapping_file) # {}) =>
            /\ error.kind \in ValidationErrors
            /\ error.kind = "invalid_source_columns" =>
                  Elements(error.detail) = OffendingColumns(mapping_file)

\* C5: in a full run a written artifact implies that the file has every
\* required column and references no source column its resolved schema
\* lacks.
C5_NoWriteUnlessValid ==
    files # <<>> =>
        /\ DocumentedRequiredColumns(target_data_area) \subseteq mapping_file.columns
        /\ OffendingColumns(mapping_file) = {}

\* C6: when process_mapping_file raises, no artifact file of the run has
\* been written.
C6_NoPartialOutput ==
    (pc = "failed" /\ error.kind = "processing") => files = <<>>

\* A row with no source table and no source column whose transformation
\* function parses as a JSON object.
IsFunctionRow(r) ==
    /\ IsNa(r["Source Table Name"])
    /\ IsNa(r["Source Column Name"])
    /\ IsStr(r["Transformation Function"])
    /\ json_loads(r["Transformation Function"].v).err = NoError
    /\ json_loads(r["Transformation Function"].v).doc.kind = "object"

IsSourceRow(r) ==
    /\ IsStr(r["Source Table Name"]) /\ r["Source Table Name"].v \in DOMAIN SqlCatalog
    /\ IsStr(r["Source Column Name"])

\* C10: a bronze file of rows that map existing source columns and of rows
\* that carry a JSON transformation function instead runs to the end unless a
\* collaborator fails, and each function row gives a mapping column whose
\* source is the parsed object with type "string" added.
C10_FunctionRowRuns ==
    (/\ target_data_area = "bronze"
     /\ AllColumns \subseteq mapping_file.columns
     /\ mint_data_areas.present
     /\ \E i \in DOMAIN mapping_file.rows : IsFunctionRow(mapping_file.rows[i])
     /\ \E i \in DOMAIN mapping_file.rows : IsSourceRow(mapping_file.rows[i])
     /\ \A i \in DOMAIN mapping_file.rows :
           IsFunctionRow(mapping_file.rows[i]) \/ IsSourceRow(mapping_file.rows[i])
     /\ OffendingColumns(mapping_file) = {}) =>
        /\ pc = "failed" => EnvironmentFailure(error)
        /\ pc = "done" =>
              \A i \in DOMAIN mapping_file.rows :
                  IsFunctionRow(mapping_file.rows[i]) =>
                      \E t \in DOMAIN mapping_config_dict.val :
                          \E c \in DOMAIN mapping_config_dict.val[t][2].columns :
                              mapping_config_dict.val[t][2].columns[c].source =
                                  ("type" :> "string")
                                  @@ json_loads(mapping_file.rows[i]
                                        ["Transformation Function"].v).doc.val

-----------------------------------------------------------------------------
(* Claims about the target schema and the column mapping.                  *)

\* The rows of the mapping file that belong to a target table.
RowsOfTable(df, table) ==
    SelectSeq(df.rows, LAMBDA r :
        /\ IsStr(r["Target Table Name"])
        /\ TrimmedForm(r["Target Table Name"]).v = table)

TargetColumnOf(r) == TrimmedForm(r["Target Column Name"]).v

NamedMergeKey(columns) ==
    {i \in DOMAIN columns : columns[i].name = <<"MergeKey">>}

\* C7: for silver and gold every target schema that is returned has exactly
\* one column named MergeKey, of type string, and a sort_columns list that
\* ends with MergeKey, whatever the mapping file maps.
C7_ExactlyOneMergeKey ==
    target_data_area \in {"silver", "gold"} =>
        \A t \in DOMAIN target_schema_config_dict.val :
            LET schema == target_schema_config_dict.val[t][2]
            IN  /\ Cardinality(NamedMergeKey(schema.columns)) = 1
                /\ \A i \in NamedMergeKey(schema.columns) :
                      schema.columns[i].type = "string"
                /\ schema.sort_columns # <<>>
                /\ schema.sort_columns[Len(schema.sort_columns)] = <<"MergeKey">>

\* The least Partition By of the rows that give a target column name.
FirstPartitionOf(rows, name) ==
    LET keys == {rows[i]["Partition By"].n : i \in
                    {j \in DOMAIN rows : /\ ~IsNa(rows[j]["Partition By"])
                                         /\ TargetColumnOf(rows[j]) = name}}
    IN  CHOOSE k \in keys : \A other \in keys : k <= other

\* C8: for landing-zone and bronze every target schema that is returned has
\* a partition_columns list that ends with IngestDate, preceded by the
\* trimmed target column names of the rows with a Partition By, each once, in
\* ascending Partition By order; the columns are one per row followed by the
\* audit columns, and sort_columns holds only names of rows with an Order By.
C8_PartitionEndsWithIngestDate ==
    target_data_area \in {"landing-zone", "bronze"} =>
        \A t \in DOMAIN target_schema_config_dict.val :
            LET schema == target_schema_config_dict.val[t][2]
                rows == RowsOfTable(mapping_file, target_schema_config_dict.val[t][1])
                parts == schema.partition_columns
                front == SubSeq(parts, 1, Len(parts) - 1)
            IN  /\ parts # <<>>
                /\ parts[Len(parts)] = <<"IngestDate">>
                /\ {front[i] : i \in DOMAIN front} =
                      {TargetColumnOf(rows[i]) : i \in
                          {j \in DOMAIN rows : ~IsNa(rows[j]["Partition By"])}}
                /\ \A i, j \in DOMAIN front :
                      i < j => /\ front[i] # front[j]
                               /\ FirstPartitionOf(rows, front[i])
                                     <= FirstPartitionOf(rows, front[j])
                /\ Len(schema.columns) = Len(rows) + Len(AuditColumns(target_data_area))
                /\ \A i \in DOMAIN rows :
                      schema.columns[i].name = TargetColumnOf(rows[i])
                /\ \A i \in DOMAIN schema.sort_columns :
                      \E j \in DOMAIN rows :
                          /\ ~IsNa(rows[j]["Order By"])
                          /\ TargetColumnOf(rows[j]) = schema.sort_columns[i]

\* A bronze schema whose partition columns are not in file order: the row
\* with the greater Partition By comes first in the file.
C8_Witness ==
    /\ target_data_area = "bronze"
    /\ \E t \in DOMAIN target_schema_config_dict.val :
          LET rows == RowsOfTable(mapping_file, target_schema_config_dict.val[t][1])
          IN  /\ Len(target_schema_config_dict.val[t][2].partition_columns) = 3
              /\ \E i, j \in DOMAIN rows :
                    /\ i < j
                    /\ ~IsNa(rows[i]["Partition By"])
                    /\ ~IsNa(rows[j]["Partition By"])
                    /\ rows[i]["Partition By"].n > rows[j]["Partition By"].n

\* The spellings of y, yes, true, t, 1 and x in any case.
AffirmativeSpellings ==
    {<<w>> : w \in {"y", "Y", "yes", "Yes", "YES", "true", "True", "TRUE",
                    "t", "T", "1", "x", "X"}}

\* The mark is a text; a cell that holds a number is not a spelling of "1".
IsMarked(r) ==
    IsStr(r["Is Business Key"]) /\ r["Is Business Key"].v \in AffirmativeSpellings

-----------------------------------------------------------------------------
(* Claims about a whole run.                                               *)

\* The documented end-to-end scenario: ORDERS.id and ORDERS.name to
\* DimOrders.OrderId and DimOrders.OrderName.
EndToEndFile ==
    Frame(AllColumns,
          <<MappingRow(Word("ORDERS"), Word("id"), Word("DimOrders"),
                       Word("OrderId"), NaN, NaN, NaN, Word("Y"), NaN, NaN),
            MappingRow(Word("ORDERS"), Word("name"), Word("DimOrders"),
                       Word("OrderName"), NaN, NaN, NaN, Word("Y"), NaN, NaN)>>)

\* The documented images of the catalog's types.
EndToEndTypes ==
    ("int" :> "integer") @@ ("varchar" :> "string") @@ ("bigint" :> "long")

\* The type the source has for a column of a table, as resolved.
ResolvedType(table, column) ==
    LET cols == SqlCatalog[table]
    IN  cols[CHOOSE i \in DOMAIN cols : cols[i].name = column].type

HasSourceColumn(r) == IsStr(r["Source Column Name"])

SourceTableOf(r) == TrimmedForm(r["Source Table Name"]).v
SourceColumnOf(r) == TrimmedForm(r["Source Column Name"]).v

\* The distinct target tables of a file in the order of their first rows.
DistinctTargetTables(df, out) ==
    /\ \A i, j \in DOMAIN out : i # j => out[i] # out[j]
    /\ {out[i] : i \in DOMAIN out} =
          {TrimmedForm(df.rows[i]["Target Table Name"]).v : i \in DOMAIN df.rows}
    /\ \A i, j \in DOMAIN out :
          i < j => \E a \in DOMAIN df.rows :
                      /\ TrimmedForm(df.rows[a]["Target Table Name"]).v = out[i]
                      /\ \A b \in DOMAIN df.rows :
                            TrimmedForm(df.rows[b]["Target Table Name"]).v = out[j]
                                => a < b

\* C11: in a bronze run the target table list is the distinct target tables
\* with action ingest; every target schema column of a row with a source
\* column has the documented image of the type the source was resolved with
\* (int -> integer, varchar -> string), the audit columns follow, and
\* partition_columns ends with IngestDate; the column mapping has the same
\* types.  The 'string' types of the echoed source schema reach neither.
C11_BronzeTypesFromResolvedSchema ==
    target_data_area = "bronze" =>
        /\ pc \in {"source_schemas", "target_schemas", "pipelines", "mappings", "done"} =>
              /\ target_tables_dict.val.action = "ingest"
              /\ DistinctTargetTables(mapping_file,
                                      target_tables_dict.val.target_table_list)
        /\ \A t \in DOMAIN target_schema_config_dict.val :
              LET schema == target_schema_config_dict.val[t][2]
                  rows == RowsOfTable(mapping_file, target_schema_config_dict.val[t][1])
                  audit == AuditColumns("bronze")
              IN  /\ Len(schema.columns) = Len(rows) + Len(audit)
                  /\ \A i \in DOMAIN rows :
                        /\ schema.columns[i].name = TargetColumnOf(rows[i])
                        /\ HasSourceColumn(rows[i]) =>
                              schema.columns[i].type =
                                  EndToEndTypes[ResolvedType(SourceTableOf(rows[1]),
                                                             SourceColumnOf(rows[i]))]
                  /\ \A i \in DOMAIN audit : schema.columns[Len(rows) + i] = audit[i]
                  /\ schema.partition_columns = <<(<<"IngestDate">>)>>
        /\ \A t \in DOMAIN mapping_config_dict.val :
              LET mapping == mapping_config_dict.val[t][2]
                  rows == RowsOfTable(mapping_file, mapping_config_dict.val[t][1])
              IN  \A i \in DOMAIN rows :
                      HasSourceColumn(rows[i]) =>
                          \E c \in DOMAIN mapping.columns :
                              /\ mapping.columns[c].name = TargetColumnOf(rows[i])
                              /\ mapping.columns[c].source =
                                    [name |-> SourceColumnOf(rows[i]),
                                     type |-> EndToEndTypes[
                                         ResolvedType(SourceTableOf(rows[i]),
                                                      SourceColumnOf(rows[i]))]]
                              /\ mapping.columns[c].type = mapping.columns[c].source.type

\* The documented scenario has run to its end with the documented result.
C11_Witness ==
    /\ target_data_area = "bronze"
    /\ mapping_file = EndToEndFile
    /\ pc = "done"
    /\ target_tables_dict.val.target_table_list = <<(<<"DimOrders">>)>>
    /\ target_schema_config_dict.val[1][2].columns =
          <<[name |-> <<"OrderId">>, type |-> "integer"],
            [name |-> <<"OrderName">>, type |-> "string"]>> \o AuditColumns("bronze")
    /\ \A i \in DOMAIN source_tables_schema_dict :
          \A c \in DOMAIN source_tables_schema_dict[i][2].columns :
              source_tables_schema_dict[i][2].columns[c].type = "string"

\* C12: a second full run on the same inputs that follows a full run leaves
\* the artifact files the first run left, with the same contents.
C12_SecondRunLeavesSameFiles ==
    (previous_run.pc = "done" /\ pc = "done") => files = previous_run.files

\* A second run has come to its end after a first one that wrote files.
C12_Witness ==
    /\ previous_run.pc = "done"
    /\ pc = "done"
    /\ Cardinality(DOMAIN files) >= 4
    /\ output_config_files # <<>>

\* The (source table, target table) pairs of the rows that name both.
TablePairs(df) ==
    {<<SourceTableOf(df.rows[i]), TrimmedForm(df.rows[i]["Target Table Name"]).v>> :
        i \in {j \in DOMAIN df.rows : /\ IsStr(df.rows[j]["Source Table Name"])
                                      /\ IsStr(df.rows[j]["Target Table Name"])}}

\* The tier a tier reads from, as documented.
UpstreamTier(target) ==
    CASE target = "bronze" -> "landing-zone"
      [] target = "silver" -> "bronze"
      [] target = "gold" -> "silver"

\* C13: generate_pipeline_config gives one linkage for each distinct (source
\* table, target table) pair of the file, two when one target table is fed by
\* two source tables, each with the upstream tier as source data area and the
\* tier of the run as target data area.
C13_OneLinkagePerPair ==
    pc \in {"mappings", "done"} =>
        /\ Len(pipeline_config_dict.val) = Cardinality(TablePairs(mapping_file))
        /\ \A p \in TablePairs(mapping_file) :
              \E i \in DOMAIN pipeline_config_dict.val :
                  LET linkage == pipeline_config_dict.val[i][2]
                  IN  /\ linkage.source_table_name = p[1]
                      /\ linkage.target_table_name = p[2]
                      /\ linkage.source_data_area = UpstreamTier(target_data_area)
                      /\ linkage.target_data_area = target_data_area

-----------------------------------------------------------------------------
(* Claims about the types.                                                 *)

TargetTypes == {"integer", "double", "string", "timestamp", "long"}

\* The documented dictionary, pair by pair.
DocumentedDictionary ==
    ("smallint" :> "integer") @@ ("decimal" :> "double") @@ ("varchar" :> "string")
    @@ ("datetime" :> "timestamp") @@ ("int" :> "integer") @@ ("integer" :> "integer")
    @@ ("bigint" :> "long") @@ ("uniqueidentifier" :> "string")
    @@ ("date" :> "timestamp") @@ ("long" :> "long") @@ ("double" :> "double")
    @@ ("timestamp" :> "timestamp")

DocumentedImage(w) ==
    IF w \in DOMAIN DocumentedDictionary THEN DocumentedDictionary[w] ELSE "string"

\* What a column type may be for a row: the image of the source type when
\* the row has a source column (of the table source), else the image of the
\* declared type; a declared type with blanks around it is only known to
\* give one of the five.
TypeAllowed(df, row, source, type) ==
    LET declared == row["Data Type"]
    IN  /\ type \in TargetTypes
        /\ HasSourceColumn(row) =>
              type = DocumentedImage(ResolvedType(source, SourceColumnOf(row)))
        /\ (~HasSourceColumn(row) /\ "Data Type" \notin df.columns) => type = "string"
        /\ (~HasSourceColumn(row) /\ "Data Type" \in df.columns) =>
              /\ IsNa(declared) => type = "string"
              /\ (IsStr(declared) /\ Len(declared.v) = 1) =>
                    type = DocumentedImage(declared.v[1])

-----------------------------------------------------------------------------
(* Claims about the column mapping.                                        *)

\* C15: the mapping of a target table has the synthetic MergeKey column only
\* if a row of the table is marked as a business key: with an 'Is Business
\* Key' column and no marked row of the table the mapping has no MergeKey
\* column.
C15_MergeKeyOnlyIfMarked ==
    "Is Business Key" \in mapping_file.columns =>
        \A t \in DOMAIN mapping_config_dict.val :
            LET mapping == mapping_config_dict.val[t][2]
                rows == RowsOfTable(mapping_file, mapping_config_dict.val[t][1])
            IN  (\A i \in DOMAIN rows : ~IsMarked(rows[i])) =>
                    NamedMergeKey(mapping.columns) = {}

\* A row that names a source table and a source column.
NamesSource(r) ==
    /\ IsStr(r["Source Table Name"]) /\ ~IsBlankString(r["Source Table Name"].v)
    /\ IsStr(r["Source Column Name"]) /\ ~IsBlankString(r["Source Column Name"].v)

\* The text of a row's transformation function, the blanks taken out.
FunctionText(r) == SelectSeq(r["Transformation Function"].v, LAMBDA a : a # " ")

\* A row without a source whose transformation function is a text that is
\* no JSON document.
IsUnparsable(r) ==
    /\ ~NamesSource(r)
    /\ IsStr(r["Transformation Function"])
    /\ r["Transformation Function"].v # <<>>
    /\ ~(Len(FunctionText(r)) = 1 /\ FunctionText(r)[1] \in {JsonConst, JsonTyped, JsonArray})

\* A row without a source whose transformation function is a JSON document
\* that is not an object.
IsNonObject(r) ==
    /\ ~NamesSource(r)
    /\ IsStr(r["Transformation Function"])
    /\ Len(FunctionText(r)) = 1 /\ FunctionText(r)[1] = JsonArray

\* C16: a row whose transformation function is a non-empty text that does
\* not parse as JSON is skipped without an exception: it gives no column, and
\* the other rows of its target table give their columns, in row order.
C16_UnparsableRowSkipped ==
    /\ mapping_config_dict.err.kind # "JSONDecodeError"
    /\ \A t \in DOMAIN mapping_config_dict.val :
          LET mapping == mapping_config_dict.val[t][2]
              rows == RowsOfTable(mapping_file, mapping_config_dict.val[t][1])
              others == SelectSeq(rows, LAMBDA r : ~IsUnparsable(r))
              first == IF "Is Business Key" \in mapping_file.columns THEN 1 ELSE 0
          IN  /\ Len(mapping.columns) = first + Len(others)
              /\ \A i \in DOMAIN others :
                    mapping.columns[first + i].name = TargetColumnOf(others[i])
    /\ (/\ pc = "returned"
        /\ target_data_area # "landing-zone"
        /\ "Is Business Key" \in mapping_file.columns
        /\ mapping_file.rows # <<>>
        /\ \A i \in DOMAIN mapping_file.rows : ~IsNonObject(mapping_file.rows[i]))
            => /\ mapping_config_dict.err = NoError
               /\ mapping_config_dict.val # <<>>

\* A mapping was returned for a table whose first row is unparsable and
\* whose second row gave its column.
C16_Witness ==
    /\ pc = "returned"
    /\ Len(mapping_file.rows) >= 2
    /\ IsUnparsable(mapping_file.rows[1])
    /\ ~IsUnparsable(mapping_file.rows[2])
    /\ mapping_file.rows[1]["Target Table Name"] = mapping_file.rows[2]["Target Table Name"]
    /\ mapping_config_dict.val # <<>>
    /\ Len(mapping_config_dict.val[1][2].columns) = 2

\* C17: generate_mapping_config fails with an empty-mapping error for a
\* target table when none of the table's rows gave a column: a mapping that
\* is returned has a column that comes from a row.
C17_EmptyMappingRejected ==
    \A t \in DOMAIN mapping_config_dict.val :
        \E i \in DOMAIN RowsOfTable(mapping_file, mapping_config_dict.val[t][1]) :
            ~IsUnparsable(RowsOfTable(mapping_file, mapping_config_dict.val[t][1])[i])

-----------------------------------------------------------------------------
(* Claims about the source schemas.                                        *)

\* C18: the source table of a target table is the first Source Table Name
\* among its rows that is not null: when every target table of the file has
\* a row that names a source table with a resolved schema, the target
\* schemas are generated, also when the first row of a table has no source
\* table.
C18_FirstNonNullSourceTable ==
    (/\ pc \in {"pipeline_config", "mapping_config", "returned"}
     /\ mapping_file.rows # <<>>
     /\ \A i \in DOMAIN mapping_file.rows :
           \E j \in DOMAIN mapping_file.rows :
               /\ mapping_file.rows[j]["Target Table Name"] =
                     mapping_file.rows[i]["Target Table Name"]
               /\ IsStr(mapping_file.rows[j]["Source Table Name"])
               /\ DictHas(source_tables_schema_dict,
                          SourceTableOf(mapping_file.rows[j])))
        => /\ target_schema_config_dict.err = NoError
           /\ target_schema_config_dict.val # <<>>

\* The artifact the resolver reads for a target tier and a source table.
UpstreamArtifact(target, table) ==
    FilePath(UpstreamTier(target), FileName(UpstreamTier(target), "schema", table))

\* C19: the resolver goes by the tier upstream of the target tier: for
\* bronze it asks the live source (key vault, then database) and not the
\* artifact store; for silver and gold it loads the schema artifact of the
\* upstream tier for the table and nothing else, and fails when the artifact
\* is not there; for a tier with no upstream tier (landing-zone, an unknown
\* tier) it fails as unresolved and calls no collaborator.
C19_ResolverGoesByUpstreamTier ==
    pc = "resolved" =>
        CASE target_data_area = "bronze" ->
               /\ collaborator_calls # <<>>
               /\ collaborator_calls[1] = "key_vault"
               /\ \A i \in DOMAIN collaborator_calls :
                     collaborator_calls[i] # "artifact_store"
               /\ (environment.vault_ok /\ environment.db_ok) =>
                     /\ collaborator_calls = <<"key_vault", "database">>
                     /\ resolver_outcome =
                           Ok([domain |-> Domain,
                               table_name |-> resolver_table_name,
                               columns |-> IF resolver_table_name \in DOMAIN SqlCatalog
                                           THEN SqlCatalog[resolver_table_name]
                                           ELSE <<>>])
               /\ ~(environment.vault_ok /\ environment.db_ok) =>
                     resolver_outcome.err.kind \in {"key_vault", "database"}
          [] target_data_area \in {"silver", "gold"} ->
               LET path == UpstreamArtifact(target_data_area, resolver_table_name)
               IN  /\ collaborator_calls = <<"artifact_store">>
                   /\ path \in DOMAIN files => resolver_outcome = Ok(files[path])
                   /\ path \notin DOMAIN files =>
                         resolver_outcome.err.kind = "file_not_found"
          [] OTHER ->
               /\ resolver_outcome.err.kind = "unresolved_schema"
               /\ collaborator_calls = <<>>

\* The resolver was called for landing-zone while the key vault is down and
\* bronze artifacts are in the folder.
C19_Witness ==
    /\ pc = "resolved"
    /\ target_data_area = "landing-zone"
    /\ ~environment.vault_ok
    /\ files # <<>>
    /\ resolver_outcome.err.kind = "unresolved_schema"

\* The (name, type) pairs of a list of columns, in order.
NameTypePairs(columns) ==
    [i \in DOMAIN columns |-> <<columns[i].name, columns[i].type>>]

\* The names of the audit columns a tier appends to a target schema.
AuditColumnNames(area) ==
    {AuditColumns(area)[i].name : i \in DOMAIN AuditColumns(area)}

\* A list of schema columns without the audit columns at its end.
RECURSIVE WithoutTrailingAudit(_, _)
WithoutTrailingAudit(columns, area) ==
    IF columns # <<>> /\ columns[Len(columns)].name \in AuditColumnNames(area)
    THEN WithoutTrailingAudit(SubSeq(columns, 1, Len(columns) - 1), area)
    ELSE columns

\* C20: at the end of a run that succeeded, for every target table the
\* (name, type) pairs of the columns of its column mapping are, in order,
\* those of the columns of its target schema without the trailing audit
\* columns.
C20_MappingAgreesWithSchema ==
    (pc = "done" /\ error = NoError) =>
        \A i \in DOMAIN mapping_config_dict.val :
            LET table   == mapping_config_dict.val[i][1]
                mapping == mapping_config_dict.val[i][2]
                schema  == DictGet(target_schema_config_dict.val, table)
            IN  NameTypePairs(mapping.columns)
                    = NameTypePairs(WithoutTrailingAudit(schema.columns,
                                                         target_data_area))

=============================================================================
